---- MODULE Spec2Model ----
(***************************************************************************)
(* A model of wire (src/wire.hpp): the multi-pattern substitutor           *)
(* string::replace_map, the glob matcher string::matches, the              *)
(* declared-only interpolation engine (locate / extract / translate) and   *)
(* expression evaluator (eval), the conversion as<T>, the circular         *)
(* string::at, getopt, ini, and string::strip, replace and split.          *)
(*                                                                         *)
(* Every component has its own variables and its own specification; the    *)
(* variables of the other components stay at their idle values.            *)
(*                                                                         *)
(* Strings are sequences.  For replace_map and ini their elements are byte *)
(* values (naturals), because std::map orders its keys byte-wise;          *)
(* elsewhere they are one-character strings.                               *)
(***************************************************************************)
EXTENDS Integers, Sequences, FiniteSets, TLC

VARIABLES
    \* string::replace_map
    text,       \* *this, the string being scanned
    rules,      \* the std::map `replacements`: a function key -> replacement
    regOrder,   \* history: the keys in the order the caller inserted them
    i,          \* the scan index (size_t i)
    out,        \* the output string
    rmStatus,   \* "idle" | "build" | "scan" | "done" | "threw"
    last,       \* history: what the latest iteration of the outer loop did
    earlier,    \* history: the results of the calls already returned from
    \* string::matches
    mText,      \* *this
    mPattern,   \* the pattern argument
    mResult,    \* the value returned
    mStatus,    \* "idle" | "ready" | "done"
    \* eval
    evExpr,     \* the expression argument
    evShape,    \* history: how the expression was built
    evResult,   \* the double returned
    evStatus,   \* "idle" | "ready" | "done"
    \* the variable store, locate and translate
    store,      \* the entries (name, value) of the process-wide store
    lookedUp,   \* history: every key locate was asked for
    trInput,    \* the text and guard translate was called with
    trText,     \* the text of the pass in progress
    trChain,    \* the guards of the calls in progress, outermost first
    trResults,  \* history: the strings translate returned for trInput
    trStore0,   \* history: the store when the latest call began
    trStatus,   \* "idle" | "setup" | "run" | "done"
    \* as<T>
    asSelf,     \* the string converted
    asType,     \* the requested type T
    asResult,   \* the value returned
    asStatus,   \* "idle" | "ready" | "done"
    \* string::at / operator[]
    atSelf,     \* *this
    atPos,      \* the int pos
    atResult,   \* the character returned, or "out_of_range"
    atStatus,   \* "idle" | "ready" | "done"
    \* getopt
    goArgv,     \* argv[0..argc-1]
    goMap,      \* the std::map: a function key -> value
    goSize,     \* the value size() returned
    goStatus,   \* "idle" | "ready" | "built" | "done"
    \* ini
    ini,        \* the std::map of the ini object: a function key -> value
    iniOriginal,\* history: the map before load
    iniText,    \* the text save() returned
    iniLoaded,  \* the value load() returned
    iniStatus,  \* "idle" | "build" | "saved" | "loaded"
    \* string::strip
    stSelf,     \* *this
    stChars,    \* the strip set chars
    stLeft,     \* strip_left
    stRight,    \* strip_right
    stI,        \* size_type i
    stJ,        \* size_type j
    stResult,   \* the string returned
    stWrapped,  \* history: j-- was executed with j == 0
    stPc,       \* "idle" | "ready" | "left" | "right" | "return" | "done"
    \* string::replace
    rpSelf,     \* *this
    rpTarget,   \* the target argument
    rpRepl,     \* the replacement argument
    rpS,        \* the local copy s
    rpFound,    \* size_t found
    rpPc,       \* "idle" | "ready" | "loop" | "done" | "threw"
    \* string::split
    spSelf,     \* *this
    spDelimiters,\* the delimiters argument
    spTokens,   \* the deque returned
    spStatus    \* "idle" | "ready" | "done"

rmVars == <<text, rules, regOrder, i, out, rmStatus, last, earlier>>

maVars == <<mText, mPattern, mResult, mStatus>>

evVars == <<evExpr, evShape, evResult, evStatus>>

trVars == <<store, lookedUp, trInput, trText, trChain, trResults, trStore0,
            trStatus>>

asVars == <<asSelf, asType, asResult, asStatus>>

atVars == <<atSelf, atPos, atResult, atStatus>>

goVars == <<goArgv, goMap, goSize, goStatus>>

iniVars == <<ini, iniOriginal, iniText, iniLoaded, iniStatus>>

stVars == <<stSelf, stChars, stLeft, stRight, stI, stJ, stResult, stWrapped,
            stPc>>

rpVars == <<rpSelf, rpTarget, rpRepl, rpS, rpFound, rpPc>>

spVars == <<spSelf, spDelimiters, spTokens, spStatus>>

vars == <<rmVars, maVars, evVars, trVars, asVars, atVars, goVars, iniVars,
          stVars, rpVars, spVars>>

notRm == <<maVars, evVars, trVars, asVars, atVars, goVars, iniVars, stVars,
           rpVars, spVars>>
notMa == <<rmVars, evVars, trVars, asVars, atVars, goVars, iniVars, stVars,
           rpVars, spVars>>
notEv == <<rmVars, maVars, trVars, asVars, atVars, goVars, iniVars, stVars,
           rpVars, spVars>>
notTr == <<rmVars, maVars, evVars, asVars, atVars, goVars, iniVars, stVars,
           rpVars, spVars>>
notAs == <<rmVars, maVars, evVars, trVars, atVars, goVars, iniVars, stVars,
           rpVars, spVars>>
notAt == <<rmVars, maVars, evVars, trVars, asVars, goVars, iniVars, stVars,
           rpVars, spVars>>
notGo == <<rmVars, maVars, evVars, trVars, asVars, atVars, iniVars, stVars,
           rpVars, spVars>>
notIni == <<rmVars, maVars, evVars, trVars, asVars, atVars, goVars, stVars,
            rpVars, spVars>>
notSt == <<rmVars, maVars, evVars, trVars, asVars, atVars, goVars, iniVars,
           rpVars, spVars>>
notRp == <<rmVars, maVars, evVars, trVars, asVars, atVars, goVars, iniVars,
           stVars, spVars>>
notSp == <<rmVars, maVars, evVars, trVars, asVars, atVars, goVars, iniVars,
           stVars, rpVars>>

(***************************************************************************)
(* Bounds and input sets                                                   *)
(***************************************************************************)
MaxText == 3
MaxPatBytes == 3

Bytes == {1, 2}

SeqsUpTo(S, n) == UNION {[1..k -> S] : k \in 0..n}

Texts == SeqsUpTo(Bytes, MaxText)
Patterns == SeqsUpTo(Bytes, MaxPatBytes)
Replacements == {<<>>, <<1>>}

MaxGlobText == 2
MaxGlobPat == 2

\* The characters of a matched text: a letter, the dot and the two line
\* separators; a pattern may also hold the two wildcards.
LineSeparators == {"\n", "\r"}
TextChars == {"a", "."} \cup LineSeparators
PatternChars == TextChars \cup {"*", "?"}
GlobTexts == SeqsUpTo(TextChars, MaxGlobText)
GlobPatterns == SeqsUpTo(PatternChars, MaxGlobPat)

MaxExprLen == 4

MaxTrText == 2

MaxAsLen == 2

MaxAtLen == 3
MaxAtPos == 7

MaxArgc == 2
MaxArgLen == 3

MaxIniEntries == 3

MaxStripLen == 3
\* The width in bits of size_type and of int in the model of strip.
SizeBits == 4

MaxReplaceLen == 2

MaxSplitLen == 3
MaxDelimiters == 2

\* Variable names are single letters; a translated text is made of the
\* separator '$' and letters; a stored value is empty or one reference.
NameChars == {"a", "b", "c"}
IdentChars == NameChars \cup {".", "_"}
TrTexts == SeqsUpTo({"$", "a"}, MaxTrText)
TrValues == {<<>>} \cup {<<"$", n>> : n \in NameChars}
AssignNames == {<<"$", n>> : n \in NameChars}
LocateNames == {<<"a">>, <<"$", "c">>, <<"$", "a", "$", "b">>}
TrGuards == {<<>>, <<"a">>}

(***************************************************************************)
(* string::replace_map                                                     *)
(***************************************************************************)

\* std::less<std::string>: byte-wise lexicographic order of the map's keys.
RECURSIVE KeyLess(_, _)
KeyLess(s, t) ==
    IF t = <<>> THEN FALSE
    ELSE IF s = <<>> THEN TRUE
    ELSE IF Head(s) # Head(t) THEN Head(s) < Head(t)
    ELSE KeyLess(Tail(s), Tail(t))

MaxKey(S) == CHOOSE k \in S : \A j \in S \ {k} : KeyLess(j, k)
MinKey(S) == CHOOSE k \in S : \A j \in S \ {k} : KeyLess(k, j)

\* begin() .. end(): the keys in ascending order (what a forward iteration
\* would visit).
RECURSIVE ForwardKeys(_)
ForwardKeys(S) ==
    IF S = {} THEN <<>> ELSE <<MinKey(S)>> \o ForwardKeys(S \ {MinKey(S)})

\* rbegin() .. rend(): the keys in descending order.
RECURSIVE ReverseKeys(_)
ReverseKeys(S) ==
    IF S = {} THEN <<>> ELSE <<MaxKey(S)>> \o ReverseKeys(S \ {MaxKey(S)})

\* The guard of line 531 with > for >=.
FitsStrict(txt, pos, target) == Len(txt) - pos > Len(target)

\* Line 531: this->size() - i >= target.size().
Fits(txt, pos, target) == Len(txt) - pos >= Len(target)

\* The inner loop over the rules at scan index pos (0-based).  target.at(0)
\* throws std::out_of_range for an empty target; otherwise memcmp compares
\* target.size() bytes of the text from pos with the target.
RECURSIVE TryRules(_, _, _)
TryRules(keys, txt, pos) ==
    IF keys = <<>> THEN [kind |-> "copy", key |-> <<>>]
    ELSE LET target == Head(keys) IN
         IF Fits(txt, pos, target)
         THEN IF target = <<>>
              THEN [kind |-> "throw", key |-> <<>>]
              ELSE IF SubSeq(txt, pos + 1, pos + Len(target)) = target
                   THEN [kind |-> "match", key |-> target]
                   ELSE TryRules(Tail(keys), txt, pos)
         ELSE TryRules(Tail(keys), txt, pos)

\* The bytes the keys of a rule table hold together.
RECURSIVE KeyBytes(_)
KeyBytes(S) ==
    IF S = {} THEN 0
    ELSE LET k == CHOOSE x \in S : TRUE IN Len(k) + KeyBytes(S \ {k})

NoStep == [kind |-> "none", key |-> <<>>, pos |-> 0, emit |-> <<>>]

RmIdle ==
    /\ text = <<>>
    /\ rules = <<>>
    /\ regOrder = <<>>
    /\ i = 0
    /\ out = <<>>
    /\ rmStatus = "idle"
    /\ last = NoStep
    /\ earlier = <<>>

EvIdle ==
    /\ evExpr = <<>>
    /\ evShape = <<>>
    /\ evResult = [k |-> "nan", n |-> 0, d |-> 1]
    /\ evStatus = "idle"

TrIdle ==
    /\ store = {}
    /\ lookedUp = {}
    /\ trInput = <<>>
    /\ trText = <<>>
    /\ trChain = <<>>
    /\ trResults = <<>>
    /\ trStore0 = {}
    /\ trStatus = "idle"

AsIdle ==
    /\ asSelf = <<>>
    /\ asType = "int"
    /\ asResult = 0
    /\ asStatus = "idle"

AtIdle ==
    /\ atSelf = <<>>
    /\ atPos = 0
    /\ atResult = ""
    /\ atStatus = "idle"

GoIdle ==
    /\ goArgv = <<>>
    /\ goMap = <<>>
    /\ goSize = 0
    /\ goStatus = "idle"

IniIdle ==
    /\ ini = <<>>
    /\ iniOriginal = <<>>
    /\ iniText = <<>>
    /\ iniLoaded = FALSE
    /\ iniStatus = "idle"

StIdle ==
    /\ stSelf = <<>>
    /\ stChars = <<>>
    /\ stLeft = FALSE
    /\ stRight = FALSE
    /\ stI = 0
    /\ stJ = 0
    /\ stResult = <<>>
    /\ stWrapped = FALSE
    /\ stPc = "idle"

RpIdle ==
    /\ rpSelf = <<>>
    /\ rpTarget = <<>>
    /\ rpRepl = <<>>
    /\ rpS = <<>>
    /\ rpFound = 0
    /\ rpPc = "idle"

SpIdle ==
    /\ spSelf = <<>>
    /\ spDelimiters = <<>>
    /\ spTokens = <<>>
    /\ spStatus = "idle"

MaIdle ==
    /\ mText = <<>>
    /\ mPattern = <<>>
    /\ mResult = FALSE
    /\ mStatus = "idle"

RmInit ==
    /\ MaIdle
    /\ EvIdle
    /\ TrIdle
    /\ AsIdle
    /\ AtIdle
    /\ GoIdle
    /\ IniIdle
    /\ StIdle
    /\ RpIdle
    /\ SpIdle
    /\ text = <<>>
    /\ rules = <<>>
    /\ regOrder = <<>>
    /\ i = 0
    /\ out = <<>>
    /\ rmStatus = "build"
    /\ last = NoStep
    /\ earlier = <<>>

\* The caller builds the map: replacements.insert( {k, v} ) of a new key.
RmRegister(k, v) ==
    /\ rmStatus = "build"
    /\ k \notin DOMAIN rules
    /\ KeyBytes(DOMAIN rules) + Len(k) <= MaxPatBytes
    /\ rules' = [x \in DOMAIN rules \cup {k} |-> IF x = k THEN v ELSE rules[x]]
    /\ regOrder' = Append(regOrder, k)
    /\ UNCHANGED <<text, i, out, rmStatus, last, earlier, notRm>>

\* text.replace_map( rules ): entry, lines 515-517.
RmCall(t) ==
    /\ rmStatus = "build"
    /\ text' = t
    /\ i' = 0
    /\ out' = <<>>
    /\ rmStatus' = "scan"
    /\ last' = NoStep
    /\ UNCHANGED <<rules, regOrder, earlier, notRm>>

\* One iteration of the outer loop, lines 517-544.
RmStep ==
    /\ rmStatus = "scan"
    /\ i < Len(text)
    /\ LET r == TryRules(ReverseKeys(DOMAIN rules), text, i) IN
        \/ /\ r.kind = "match"
           /\ i' = i + Len(r.key)
           /\ out' = out \o rules[r.key]
           /\ last' = [kind |-> "match", key |-> r.key, pos |-> i,
                       emit |-> rules[r.key]]
           /\ UNCHANGED rmStatus
        \/ /\ r.kind = "copy"
           /\ i' = i + 1
           /\ out' = Append(out, text[i + 1])
           /\ last' = [kind |-> "copy", key |-> <<>>, pos |-> i,
                       emit |-> <<text[i + 1]>>]
           /\ UNCHANGED rmStatus
        \/ /\ r.kind = "throw"
           /\ rmStatus' = "threw"
           /\ last' = [kind |-> "throw", key |-> <<>>, pos |-> i, emit |-> <<>>]
           /\ UNCHANGED <<i, out>>
    /\ UNCHANGED <<text, rules, regOrder, earlier, notRm>>

\* Line 546: return out.
RmReturn ==
    /\ rmStatus = "scan"
    /\ i >= Len(text)
    /\ rmStatus' = "done"
    /\ UNCHANGED <<text, rules, regOrder, i, out, last, earlier, notRm>>

\* The caller passes the result through replace_map once more, with the empty
\* rule set: result.replace_map( {} ).
RmAgain ==
    /\ rmStatus = "done"
    /\ earlier = <<>>
    /\ earlier' = <<out>>
    /\ text' = out
    /\ rules' = <<>>
    /\ regOrder' = <<>>
    /\ i' = 0
    /\ out' = <<>>
    /\ last' = NoStep
    /\ rmStatus' = "scan"
    /\ UNCHANGED notRm

(***************************************************************************)
(* Properties of string::replace_map                                       *)
(***************************************************************************)

\* The remaining input at pos (0-based) starts with k.
MatchesAt(k, txt, pos) ==
    /\ Len(k) <= Len(txt) - pos
    /\ \A n \in 1..Len(k) : txt[pos + n] = k[n]

NonEmptyKeys == {k \in DOMAIN rules : k # <<>>}

RegIndex(k) == CHOOSE n \in 1..Len(regOrder) : regOrder[n] = k

IsProperPrefix(p, q) == Len(p) < Len(q) /\ SubSeq(q, 1, Len(p)) = p

\* The substitution the specification describes, with empty patterns
\* skipped: at each position the longest matching non-empty pattern is
\* replaced, else one character is copied.
RECURSIVE Subst(_, _)
Subst(txt, pos) ==
    IF pos >= Len(txt) THEN <<>>
    ELSE LET M == {k \in NonEmptyKeys : MatchesAt(k, txt, pos)} IN
         IF M = {} THEN <<txt[pos + 1]>> \o Subst(txt, pos + 1)
         ELSE LET k == CHOOSE x \in M : \A y \in M : Len(y) <= Len(x)
              IN rules[k] \o Subst(txt, pos + Len(k))

\* C1 as stated: at every scan position the rule applied is the most
\* recently registered of the non-empty rules whose pattern matches there.
C1_LatestRegisteredWins ==
    last.kind = "match" =>
        \A k \in NonEmptyKeys :
            MatchesAt(k, text, last.pos) => RegIndex(k) <= RegIndex(last.key)

\* C1 amended: the rules are tried in descending key order of the std::map,
\* whatever the registration order; the rule applied is the matching
\* non-empty rule with the greatest key, which is the longest matching
\* pattern, its replacement is the text appended, and a character is copied
\* only where no non-empty rule matches.
C1_GreatestKeyWins ==
    /\ last.kind = "match" =>
        /\ last.key \in NonEmptyKeys
        /\ MatchesAt(last.key, text, last.pos)
        /\ last.emit = rules[last.key]
        /\ \A k \in NonEmptyKeys \ {last.key} :
              MatchesAt(k, text, last.pos) =>
                  KeyLess(k, last.key) /\ Len(k) < Len(last.key)
    /\ last.kind = "copy" =>
        \A k \in NonEmptyKeys : ~MatchesAt(k, text, last.pos)

\* Two rules matched at the position, and the one applied was registered
\* before the other.
C1_Witness ==
    /\ last.kind = "match"
    /\ \E k \in NonEmptyKeys \ {last.key} :
          /\ MatchesAt(k, text, last.pos)
          /\ RegIndex(k) > RegIndex(last.key)

\* C2: of two rules where p is a proper prefix of q and q was registered
\* later, at a position where both match the shorter p is never the rule
\* applied, and q is the rule applied (its span consumed, its replacement
\* emitted) unless a still longer registered pattern matches there too.
C2_LongerPrefixWins ==
    last.kind \in {"match", "copy"} =>
        \A p \in DOMAIN rules, q \in DOMAIN rules :
            ( /\ IsProperPrefix(p, q)
              /\ RegIndex(p) < RegIndex(q)
              /\ MatchesAt(q, text, last.pos) ) =>
                /\ last.kind = "match"
                /\ last.key # p
                /\ (\A r \in DOMAIN rules :
                        Len(r) > Len(q) => ~MatchesAt(r, text, last.pos)) =>
                      /\ last.key = q
                      /\ i = last.pos + Len(q)
                      /\ last.emit = rules[q]

\* The longer of two such rules was applied where both matched.
C2_Witness ==
    /\ last.kind = "match"
    /\ i = last.pos + Len(last.key)
    /\ \E p \in NonEmptyKeys :
          /\ IsProperPrefix(p, last.key)
          /\ RegIndex(p) < RegIndex(last.key)
          /\ MatchesAt(p, text, last.pos)

\* C3: the call is one left-to-right pass that never fails; an iteration
\* either applies one rule, resuming just past the matched span, or copies
\* exactly one input character; the output so far followed by the
\* substitution of the rest of the input is the substitution of the input
\* (emitted text is never scanned).
C3_SinglePass ==
    /\ rmStatus # "threw"
    /\ last.kind = "match" =>
          /\ i = last.pos + Len(last.key)
          /\ i > last.pos
          /\ last.emit = rules[last.key]
    /\ last.kind = "copy" =>
          /\ i = last.pos + 1
          /\ last.emit = <<text[last.pos + 1]>>
    /\ rmStatus \in {"scan", "done"} => out \o Subst(text, i) = Subst(text, 0)

NoOccurrence ==
    \A k \in NonEmptyKeys, pos \in 0..(Len(text) - 1) : ~MatchesAt(k, text, pos)

\* C4: when no non-empty registered pattern occurs in the text the call
\* returns the text unchanged, and passing a result through the empty rule
\* set returns that result.
C4_UnchangedWithoutOccurrence ==
    /\ (rmStatus \in {"scan", "done", "threw"} /\ NoOccurrence) =>
          /\ rmStatus # "threw"
          /\ rmStatus = "done" => out = text
    /\ (rmStatus = "done" /\ earlier # <<>>) => out = earlier[1]

\* C5: with an empty pattern among the rules and a non-empty input the call
\* returns normally, every iteration advances the scan position, and the
\* result is the result without the empty-pattern rule.
C5_EmptyPatternSkipped ==
    (<<>> \in DOMAIN rules /\ text # <<>>) =>
        /\ rmStatus # "threw"
        /\ last.kind \in {"match", "copy"} => i > last.pos
        /\ rmStatus = "done" => out = Subst(text, 0)

RmNext ==
    \/ \E k \in Patterns, v \in Replacements : RmRegister(k, v)
    \/ \E t \in Texts : RmCall(t)
    \/ RmStep
    \/ RmReturn
    \/ RmAgain

SpecReplaceMap == RmInit /\ [][RmNext]_vars

(***************************************************************************)
(* string::matches                                                         *)
(***************************************************************************)

\* local::match with the line separators, not the dot, refused by '?'.
RECURSIVE MatchRefusingSeparators(_, _)
MatchRefusingSeparators(pattern, str) ==
    IF pattern = <<>> THEN str = <<>>
    ELSE IF Head(pattern) = "*"
         THEN \/ MatchRefusingSeparators(Tail(pattern), str)
              \/ str # <<>> /\ MatchRefusingSeparators(pattern, Tail(str))
    ELSE IF Head(pattern) = "?"
         THEN /\ str # <<>>
              /\ Head(str) \notin LineSeparators
              /\ MatchRefusingSeparators(Tail(pattern), Tail(str))
    ELSE /\ str # <<>>
         /\ Head(str) = Head(pattern)
         /\ MatchRefusingSeparators(Tail(pattern), Tail(str))

\* local::match with a '*' that must cover at least one character.
RECURSIVE MatchStarNonEmpty(_, _)
MatchStarNonEmpty(pattern, str) ==
    IF pattern = <<>> THEN str = <<>>
    ELSE IF Head(pattern) = "*"
         THEN /\ str # <<>>
              /\ \/ MatchStarNonEmpty(Tail(pattern), Tail(str))
                 \/ MatchStarNonEmpty(pattern, Tail(str))
    ELSE IF Head(pattern) = "?"
         THEN /\ str # <<>>
              /\ Head(str) # "."
              /\ MatchStarNonEmpty(Tail(pattern), Tail(str))
    ELSE /\ str # <<>>
         /\ Head(str) = Head(pattern)
         /\ MatchStarNonEmpty(Tail(pattern), Tail(str))

\* local::match, lines 454-459; the end of a sequence is the terminating
\* '\0' of the C string.
RECURSIVE Match(_, _)
Match(pattern, str) ==
    IF pattern = <<>> THEN str = <<>>
    ELSE IF Head(pattern) = "*"
         THEN \/ Match(Tail(pattern), str)
              \/ str # <<>> /\ Match(pattern, Tail(str))
    ELSE IF Head(pattern) = "?"
         THEN /\ str # <<>>
              /\ Head(str) # "."
              /\ Match(Tail(pattern), Tail(str))
    ELSE /\ str # <<>>
         /\ Head(str) = Head(pattern)
         /\ Match(Tail(pattern), Tail(str))

MaInit ==
    /\ RmIdle
    /\ EvIdle
    /\ TrIdle
    /\ AsIdle
    /\ AtIdle
    /\ GoIdle
    /\ IniIdle
    /\ StIdle
    /\ RpIdle
    /\ SpIdle
    /\ mText \in GlobTexts
    /\ mPattern \in GlobPatterns
    /\ mResult = FALSE
    /\ mStatus = "ready"

\* text.matches( pattern ), line 462.
MaCall ==
    /\ mStatus = "ready"
    /\ mResult' = Match(mPattern, mText)
    /\ mStatus' = "done"
    /\ UNCHANGED <<mText, mPattern, notMa>>

MaNext == MaCall

SpecMatches == MaInit /\ [][MaNext]_vars

(***************************************************************************)
(* Properties of string::matches                                           *)
(***************************************************************************)

StarFree(p) == \A n \in 1..Len(p) : p[n] # "*"

HasQuestionMark(p) == \E n \in 1..Len(p) : p[n] = "?"

\* C10 as stated: in a pattern without '*', the text matches exactly when it
\* has the pattern's length, every '?' stands on a character that is not a
\* line separator (the dot included among the accepted ones), and every
\* other pattern character on itself.
C10_QuestionMarkRefusesSeparators ==
    (mStatus = "done" /\ StarFree(mPattern)) =>
        mResult = ( /\ Len(mText) = Len(mPattern)
                    /\ \A n \in 1..Len(mPattern) :
                          IF mPattern[n] = "?"
                          THEN mText[n] \notin LineSeparators
                          ELSE mText[n] = mPattern[n] )

\* C10 amended: '?' matches exactly one text character provided it is not
\* the dot '.', and never matches a dot; every other single character, the
\* line separators included, is accepted by '?'.
C10_QuestionMarkRefusesDot ==
    (mStatus = "done" /\ StarFree(mPattern)) =>
        mResult = ( /\ Len(mText) = Len(mPattern)
                    /\ \A n \in 1..Len(mPattern) :
                          IF mPattern[n] = "?"
                          THEN mText[n] # "."
                          ELSE mText[n] = mPattern[n] )

\* A '?' has matched a line separator.
C10_Witness ==
    /\ mStatus = "done"
    /\ StarFree(mPattern)
    /\ mResult
    /\ \E n \in 1..Len(mPattern) :
          mPattern[n] = "?" /\ mText[n] \in LineSeparators

\* The reference glob relation: the text is cut into one piece per pattern
\* character (cut[k-1]+1 .. cut[k] is the piece of pattern character k); a
\* '*' takes a piece of any length, a '?' a piece of one character that is
\* admissible (any character but the dot), any other pattern character a
\* piece that is that character.
Admissible(c) == c # "."

Glob(p, s) ==
    \E cut \in [0..Len(p) -> 0..Len(s)] :
        /\ cut[0] = 0
        /\ cut[Len(p)] = Len(s)
        /\ \A k \in 1..Len(p) :
              /\ cut[k - 1] <= cut[k]
              /\ p[k] # "*" =>
                    /\ cut[k] = cut[k - 1] + 1
                    /\ IF p[k] = "?" THEN Admissible(s[cut[k]])
                                     ELSE s[cut[k]] = p[k]

Literal(p) == \A n \in 1..Len(p) : p[n] \notin {"*", "?"}

\* C11: matches returns exactly the reference glob relation; a literal
\* pattern matches itself, "*" matches every text, the empty pattern matches
\* only the empty text, and "?" does not match the empty text.
C11_MatchesIsGlob ==
    mStatus = "done" =>
        /\ mResult = Glob(mPattern, mText)
        /\ (Literal(mPattern) /\ mText = mPattern) => mResult
        /\ mPattern = <<"*">> => mResult
        /\ mPattern = <<>> => (mResult = (mText = <<>>))
        /\ (mPattern = <<"?">> /\ mText = <<>>) => ~mResult

\* A '*' followed by a literal has matched by covering one character: the
\* first alternative of '*' failed and the second succeeded.
C11_Witness ==
    /\ mStatus = "done"
    /\ mPattern = <<"*", "a">>
    /\ mText = <<".", "a">>
    /\ mResult

(***************************************************************************)
(* Doubles.  A finite double is kept as an exact fraction n/d in lowest    *)
(* terms while numerator and denominator stay within MaxMagnitude; a       *)
(* finite value outside that range (or irrational) is kept as "untracked". *)
(***************************************************************************)
MaxMagnitude == 10000

Num(n, d) == [k |-> "num", n |-> n, d |-> d]
NaN == [k |-> "nan", n |-> 0, d |-> 1]
PosInf == [k |-> "inf", n |-> 1, d |-> 1]
NegInf == [k |-> "inf", n |-> -1, d |-> 1]
Untracked == [k |-> "untracked", n |-> 0, d |-> 1]

Abs(n) == IF n < 0 THEN -n ELSE n
Sign(n) == IF n < 0 THEN -1 ELSE 1

RECURSIVE Gcd(_, _)
Gcd(a, b) == IF b = 0 THEN a ELSE Gcd(b, a % b)

\* n/d (d # 0) in lowest terms with a positive denominator.
Frac(n, d) ==
    LET g == Gcd(Abs(n), Abs(d))
        nn == (Sign(d) * n) \div g
        dd == Abs(d) \div g
    IN IF Abs(nn) > MaxMagnitude \/ dd > MaxMagnitude THEN Untracked
       ELSE Num(nn, dd)

\* x == y on doubles: false as soon as one side is NaN.
DoubleEq(x, y) == x.k # "nan" /\ y.k # "nan" /\ x = y

Neg(x) ==
    IF x.k = "num" THEN Num(-x.n, x.d)
    ELSE IF x.k = "inf" THEN [x EXCEPT !.n = -x.n]
    ELSE x

Add(x, y) ==
    IF x.k = "nan" \/ y.k = "nan" THEN NaN
    ELSE IF x.k = "inf" /\ y.k = "inf" THEN (IF x.n = y.n THEN x ELSE NaN)
    ELSE IF x.k = "inf" THEN x
    ELSE IF y.k = "inf" THEN y
    ELSE IF x.k = "untracked" \/ y.k = "untracked" THEN Untracked
    ELSE Frac(x.n * y.d + y.n * x.d, x.d * y.d)

Sub(x, y) == Add(x, Neg(y))

Mul(x, y) ==
    IF x.k = "nan" \/ y.k = "nan" THEN NaN
    ELSE IF x.k = "inf" \/ y.k = "inf"
         THEN IF (x.k = "num" /\ x.n = 0) \/ (y.k = "num" /\ y.n = 0) THEN NaN
              ELSE IF x.k = "untracked" \/ y.k = "untracked" THEN Untracked
              ELSE IF Sign(x.n) = Sign(y.n) THEN PosInf ELSE NegInf
    ELSE IF x.k = "untracked" \/ y.k = "untracked" THEN Untracked
    ELSE Frac(x.n * y.n, x.d * y.d)

\* Division by zero gives an infinity of the dividend's sign, 0/0 gives NaN.
Div(x, y) ==
    IF x.k = "nan" \/ y.k = "nan" THEN NaN
    ELSE IF x.k = "inf" /\ y.k = "inf" THEN NaN
    ELSE IF x.k = "untracked" \/ y.k = "untracked" THEN Untracked
    ELSE IF x.k = "inf" THEN (IF Sign(x.n) = Sign(y.n) THEN PosInf ELSE NegInf)
    ELSE IF y.k = "inf" THEN Num(0, 1)
    ELSE IF y.n = 0
         THEN IF x.n = 0 THEN NaN ELSE IF x.n > 0 THEN PosInf ELSE NegInf
    ELSE Frac(x.n * y.d, x.d * y.n)

RECURSIVE PowAcc(_, _, _)
PowAcc(acc, x, e) ==
    IF e = 0 \/ acc.k # "num" THEN acc ELSE PowAcc(Mul(acc, x), x, e - 1)

\* pow( x, y ): exact for a finite base and an integer exponent.
Pow(x, y) ==
    IF y.k = "num" /\ y.n = 0 THEN Num(1, 1)
    ELSE IF x.k = "num" /\ x.n = 1 /\ x.d = 1 THEN Num(1, 1)
    ELSE IF x.k = "nan" \/ y.k = "nan" THEN NaN
    ELSE IF x.k # "num" \/ y.k # "num" THEN Untracked
    ELSE IF y.d = 1
         THEN IF y.n > 0 THEN PowAcc(Num(1, 1), x, y.n)
              ELSE IF x.n = 0 THEN PosInf
              ELSE PowAcc(Num(1, 1), Div(Num(1, 1), x), -y.n)
    ELSE IF x.n < 0 THEN NaN
    ELSE IF x.n = 0 THEN (IF y.n > 0 THEN Num(0, 1) ELSE PosInf)
    ELSE Untracked

Apply(op, x, y) ==
    CASE op = "+" -> Add(x, y)
      [] op = "-" -> Sub(x, y)
      [] op = "*" -> Mul(x, y)
      [] op = "/" -> Div(x, y)
      [] op = "^" -> Pow(x, y)

(***************************************************************************)
(* eval: a precedence-climbing parser with one character of lookahead over *)
(* the expression text.  Every level returns [ok, val, pos]: whether it    *)
(* parsed, the value, and the 1-based position of the next unread          *)
(* character.                                                              *)
(***************************************************************************)
Digits == {"2", "3", "4"}
DigitValue(c) == CASE c = "2" -> 2 [] c = "3" -> 3 [] c = "4" -> 4

Peek(e, pos) == IF pos <= Len(e) THEN e[pos] ELSE "end"

Failed(pos) == [ok |-> FALSE, val |-> NaN, pos |-> pos]
Parsed(v, pos) == [ok |-> TRUE, val |-> v, pos |-> pos]

\* A number literal: the longest run of digits from pos, read in decimal.
RECURSIVE ParseDigits(_, _, _)
ParseDigits(e, pos, acc) ==
    IF Peek(e, pos) \in Digits
    THEN ParseDigits(e, pos + 1, Add(Mul(acc, Num(10, 1)), Num(DigitValue(e[pos]), 1)))
    ELSE Parsed(acc, pos)

RECURSIVE ParseSum(_, _), ParseSumRest(_, _), ParseProduct(_, _)
RECURSIVE ParseProductRest(_, _), ParsePower(_, _), ParseUnary(_, _)
RECURSIVE ParsePrimary(_, _)

\* primary := number | '(' sum ')'
ParsePrimary(e, pos) ==
    IF Peek(e, pos) \in Digits THEN ParseDigits(e, pos, Num(0, 1))
    ELSE IF Peek(e, pos) = "("
         THEN LET r == ParseSum(e, pos + 1) IN
              IF r.ok /\ Peek(e, r.pos) = ")" THEN Parsed(r.val, r.pos + 1)
              ELSE Failed(r.pos)
    ELSE Failed(pos)

\* unary := '-' unary | primary
ParseUnary(e, pos) ==
    IF Peek(e, pos) = "-"
    THEN LET r == ParseUnary(e, pos + 1) IN
         IF r.ok THEN Parsed(Neg(r.val), r.pos) ELSE r
    ELSE ParsePrimary(e, pos)

\* '^' parsed as a left-associative operator.
ParsePowerLeftRest(e, l) ==
    LET RECURSIVE Rest(_)
        Rest(a) ==
            IF a.ok /\ Peek(e, a.pos) = "^"
            THEN LET r == ParseUnary(e, a.pos + 1) IN
                 IF r.ok THEN Rest(Parsed(Pow(a.val, r.val), r.pos)) ELSE r
            ELSE a
    IN Rest(l)

ParsePowerLeft(e, pos) == ParsePowerLeftRest(e, ParseUnary(e, pos))

\* power := unary [ '^' power ]     (right-associative)
ParsePower(e, pos) ==
    LET l == ParseUnary(e, pos) IN
    IF l.ok /\ Peek(e, l.pos) = "^"
    THEN LET r == ParsePower(e, l.pos + 1) IN
         IF r.ok THEN Parsed(Pow(l.val, r.val), r.pos) ELSE r
    ELSE l

\* product := power { ('*' | '/') power }     (left-associative)
ParseProductRest(e, l) ==
    IF l.ok /\ Peek(e, l.pos) \in {"*", "/"}
    THEN LET r == ParsePower(e, l.pos + 1) IN
         IF r.ok
         THEN ParseProductRest(e, Parsed(Apply(e[l.pos], l.val, r.val), r.pos))
         ELSE r
    ELSE l

ParseProduct(e, pos) == ParseProductRest(e, ParsePower(e, pos))

\* sum := product { ('+' | '-') product }     (left-associative)
ParseSumRest(e, l) ==
    IF l.ok /\ Peek(e, l.pos) \in {"+", "-"}
    THEN LET r == ParseProduct(e, l.pos + 1) IN
         IF r.ok
         THEN ParseSumRest(e, Parsed(Apply(e[l.pos], l.val, r.val), r.pos))
         ELSE r
    ELSE l

ParseSum(e, pos) == ParseSumRest(e, ParseProduct(e, pos))

\* eval without the test for the end of the input.
EvalPrefix(e) ==
    LET r == ParseSum(e, 1) IN IF r.ok THEN r.val ELSE NaN

\* eval( expression ): the value of the whole text, or NaN on a syntax
\* error, trailing characters included.
Eval(e) ==
    LET r == ParseSum(e, 1) IN
    IF r.ok /\ Peek(e, r.pos) = "end" THEN r.val ELSE NaN

(***************************************************************************)
(* The expressions eval is called with: every text of at most MaxExprLen   *)
(* characters, and every expression of three operands and two operators,   *)
(* flat or with one pair of parentheses, each operand a digit with or      *)
(* without a unary minus.                                                  *)
(***************************************************************************)
BinaryOps == {"+", "-", "*", "/", "^"}
ExprChars == Digits \cup BinaryOps \cup {"(", ")", " "}
Operands == [neg : BOOLEAN, digit : Digits]
Shapes == [form : {"flat", "left", "right"}, a : Operands, op1 : BinaryOps,
           b : Operands, op2 : BinaryOps, c : Operands]

RenderOperand(x) == IF x.neg THEN <<"-", x.digit>> ELSE <<x.digit>>

Render(sh) ==
    CASE sh.form = "flat" ->
            RenderOperand(sh.a) \o <<sh.op1>> \o RenderOperand(sh.b)
                \o <<sh.op2>> \o RenderOperand(sh.c)
      [] sh.form = "left" ->
            <<"(">> \o RenderOperand(sh.a) \o <<sh.op1>> \o RenderOperand(sh.b)
                \o <<")", sh.op2>> \o RenderOperand(sh.c)
      [] sh.form = "right" ->
            RenderOperand(sh.a) \o <<sh.op1, "(">> \o RenderOperand(sh.b)
                \o <<sh.op2>> \o RenderOperand(sh.c) \o <<")">>

EvInit ==
    /\ RmIdle
    /\ MaIdle
    /\ TrIdle
    /\ AsIdle
    /\ AtIdle
    /\ GoIdle
    /\ IniIdle
    /\ StIdle
    /\ RpIdle
    /\ SpIdle
    /\ \/ evExpr \in SeqsUpTo(ExprChars, MaxExprLen) /\ evShape = <<>>
       \/ \E sh \in Shapes : evExpr = Render(sh) /\ evShape = <<sh>>
    /\ evResult = NaN
    /\ evStatus = "ready"

\* double result = eval( expression ).
EvCall ==
    /\ evStatus = "ready"
    /\ evResult' = Eval(evExpr)
    /\ evStatus' = "done"
    /\ UNCHANGED <<evExpr, evShape, notEv>>

EvNext == EvCall

SpecEval == EvInit /\ [][EvNext]_vars

(***************************************************************************)
(* Properties of eval                                                      *)
(***************************************************************************)

OperandValue(x) ==
    IF x.neg THEN Num(-DigitValue(x.digit), 1) ELSE Num(DigitValue(x.digit), 1)

Precedence(op) == IF op = "^" THEN 3 ELSE IF op \in {"*", "/"} THEN 2 ELSE 1

\* a op1 b op2 c groups to the right when op2 binds tighter than op1, or
\* when both are the right-associative '^'; otherwise to the left.
GroupsRight(sh) ==
    \/ sh.form = "right"
    \/ /\ sh.form = "flat"
       /\ \/ Precedence(sh.op2) > Precedence(sh.op1)
          \/ sh.op1 = "^" /\ sh.op2 = "^"

\* The value the stated precedence and associativity give an expression.
Meaning(sh) ==
    LET a == OperandValue(sh.a)
        b == OperandValue(sh.b)
        c == OperandValue(sh.c)
    IN IF GroupsRight(sh) THEN Apply(sh.op1, a, Apply(sh.op2, b, c))
       ELSE Apply(sh.op2, Apply(sh.op1, a, b), c)

\* C8: eval gives every three-operand expression the value of the stated
\* grouping (unary minus tightest, then right-associative ^, then
\* left-associative * and /, then left-associative + and -, parentheses
\* overriding), so 2+3*4 = 14, (2+3)*4 = 20, 2^3^2 = 512 and a-b-c = (a-b)-c.
C8_PrecedenceAndAssociativity ==
    evStatus = "done" =>
        /\ evShape # <<>> => evResult = Meaning(evShape[1])
        /\ evExpr = <<"2", "+", "3", "*", "4">> => evResult = Num(14, 1)
        /\ evExpr = <<"(", "2", "+", "3", ")", "*", "4">> => evResult = Num(20, 1)
        /\ evExpr = <<"2", "^", "3", "^", "2">> => evResult = Num(512, 1)
        /\ evExpr = <<"4", "-", "3", "-", "2">> => evResult = Num(-1, 1)

\* eval has returned 512 for 2^3^2.
C8_Witness ==
    /\ evStatus = "done"
    /\ evExpr = <<"2", "^", "3", "^", "2">>
    /\ evShape # <<>>
    /\ evResult = Num(512, 1)

\* The texts of the grammar, recognised character by character: st is what
\* precedes pos ("operand" wanted, inside a "number", after a "close"d
\* parenthesis) and depth the number of parentheses still open.
RECURSIVE Recognise(_, _, _, _)
Recognise(e, pos, st, depth) ==
    IF pos > Len(e) THEN st \in {"number", "close"} /\ depth = 0
    ELSE LET ch == e[pos] IN
         IF st = "operand"
         THEN IF ch \in Digits THEN Recognise(e, pos + 1, "number", depth)
              ELSE IF ch = "(" THEN Recognise(e, pos + 1, "operand", depth + 1)
              ELSE IF ch = "-" THEN Recognise(e, pos + 1, "operand", depth)
              ELSE FALSE
         ELSE IF ch \in Digits
              THEN st = "number" /\ Recognise(e, pos + 1, "number", depth)
         ELSE IF ch \in BinaryOps THEN Recognise(e, pos + 1, "operand", depth)
         ELSE IF ch = ")"
              THEN depth > 0 /\ Recognise(e, pos + 1, "close", depth - 1)
         ELSE FALSE

WellFormed(e) == Recognise(e, 1, "operand", 0)

IsDouble(x) ==
    /\ x.k \in {"num", "nan", "inf", "untracked"}
    /\ x.k = "num" => x.d > 0

\* C9: eval returns a double for every text, and for every text outside the
\* grammar (an unexpected character, an unbalanced parenthesis, characters
\* after a complete expression) the NaN sentinel, which is not equal to
\* itself.
C9_TotalWithNaNOnSyntaxError ==
    /\ IsDouble(Eval(evExpr))
    /\ evStatus = "done" =>
          /\ IsDouble(evResult)
          /\ ~WellFormed(evExpr) =>
                evResult = NaN /\ ~DoubleEq(evResult, evResult)

\* eval has returned NaN for "2+".
C9_Witness ==
    /\ evStatus = "done"
    /\ evExpr = <<"2", "+">>
    /\ ~WellFormed(evExpr)
    /\ ~DoubleEq(evResult, evResult)

(***************************************************************************)
(* The variable store, extract, locate and translate                       *)
(***************************************************************************)

Keys(st) == {e[1] : e \in st}

\* The value stored under key, "" when there is none.
ValueOf(st, key) ==
    IF key \in Keys(st) THEN (CHOOSE e \in st : e[1] = key)[2] ELSE <<>>

\* A lookup that inserts nothing.
LookupOnly(st, key) == st

\* Lookup of an absent key creates it with an empty value.
Vivify(st, key) == IF key \in Keys(st) THEN st ELSE st \cup {<<key, <<>>>>}

\* The segments of t between occurrences of sep; adjacent separators give
\* no empty segment.
RECURSIVE Split(_, _, _)
Split(t, sep, cur) ==
    IF t = <<>> THEN (IF cur = <<>> THEN <<>> ELSE <<cur>>)
    ELSE IF Head(t) = sep
         THEN (IF cur = <<>> THEN <<>> ELSE <<cur>>) \o Split(Tail(t), sep, <<>>)
    ELSE Split(Tail(t), sep, Append(cur, Head(t)))

\* extract( dollartext, '$' ): the path segments of a reference; a text
\* without the leading separator is one segment.
Extract(t) ==
    IF t # <<>> /\ Head(t) = "$" THEN Split(Tail(t), "$", <<>>) ELSE <<t>>

\* The canonical key: the segments joined by '.'.
RECURSIVE Canonical(_)
Canonical(segs) ==
    IF segs = <<>> THEN <<>>
    ELSE IF Len(segs) = 1 THEN segs[1]
    ELSE segs[1] \o <<".">> \o Canonical(Tail(segs))

\* The guard chain left as it is when translate recurses.
SameChain(chain, key) == chain

\* The guard chain of the recursive call: the just-expanded key joins it.
NextChain(chain, key) == Append(chain, key)

\* Index of the last character of the reference that starts at pos: the
\* separator and the identifier characters that follow it.
RECURSIVE RefEnd(_, _)
RefEnd(t, pos) ==
    IF pos < Len(t) /\ t[pos + 1] \in IdentChars THEN RefEnd(t, pos + 1) ELSE pos

\* One left-to-right pass of translate over t from pos: every reference is
\* replaced by the value locate gives for its key.  acc collects the output,
\* the store, the keys located, the last key expanded and whether a key of
\* the guard chain was met.
RECURSIVE Pass(_, _, _, _)
Pass(t, pos, chain, acc) ==
    IF pos > Len(t) THEN acc
    ELSE IF t[pos] = "$"
         THEN LET end == RefEnd(t, pos)
                  key == Canonical(Extract(SubSeq(t, pos, end)))
                  st == Vivify(acc.store, key)
              IN Pass(t, end + 1, chain,
                      [out |-> acc.out \o ValueOf(st, key),
                       store |-> st,
                       located |-> acc.located \cup {key},
                       lastKey |-> key,
                       hit |-> acc.hit \/ (\E n \in 1..Len(chain) : chain[n] = key)])
    ELSE Pass(t, pos + 1, chain, [acc EXCEPT !.out = Append(acc.out, t[pos])])

PassOf(t, chain, st) ==
    Pass(t, 1, chain, [out |-> <<>>, store |-> st, located |-> {},
                       lastKey |-> <<>>, hit |-> FALSE])

TrInit ==
    /\ RmIdle
    /\ MaIdle
    /\ EvIdle
    /\ AsIdle
    /\ AtIdle
    /\ GoIdle
    /\ IniIdle
    /\ StIdle
    /\ RpIdle
    /\ SpIdle
    /\ store = {}
    /\ lookedUp = {}
    /\ trInput = <<>>
    /\ trText = <<>>
    /\ trChain = <<>>
    /\ trResults = <<>>
    /\ trStore0 = {}
    /\ trStatus = "setup"

\* locate( name ): a handle to the entry of the name's key, created when
\* absent.
TrLocate(name) ==
    /\ trStatus = "setup"
    /\ LET key == Canonical(Extract(name)) IN
          /\ store' = Vivify(store, key)
          /\ lookedUp' = lookedUp \cup {key}
    /\ UNCHANGED <<trInput, trText, trChain, trResults, trStore0, trStatus, notTr>>

\* locate( name ) = value: the entry is located, then written through the
\* handle.
TrAssign(name, value) ==
    /\ trStatus = "setup"
    /\ LET key == Canonical(Extract(name)) IN
          /\ store' = {e \in Vivify(store, key) : e[1] # key} \cup {<<key, value>>}
          /\ lookedUp' = lookedUp \cup {key}
    /\ UNCHANGED <<trInput, trText, trChain, trResults, trStore0, trStatus, notTr>>

\* translate( t, guard ): entry.
TrBegin(t, guard) ==
    /\ trStatus = "setup"
    /\ trInput' = <<t, guard>>
    /\ trText' = t
    /\ trChain' = <<guard>>
    /\ trResults' = <<>>
    /\ trStore0' = store
    /\ trStatus' = "run"
    /\ UNCHANGED <<store, lookedUp, notTr>>

\* One call of translate: a full pass, then either the return (no change,
\* or a key of the guard chain was met) or the recursive call on the output.
TrPass ==
    /\ trStatus = "run"
    /\ \E r \in {PassOf(trText, trChain, store)} :
          /\ store' = r.store
          /\ lookedUp' = lookedUp \cup r.located
          /\ \/ /\ r.out = trText \/ r.hit
                /\ trResults' = Append(trResults, r.out)
                /\ trStatus' = "done"
                /\ UNCHANGED <<trText, trChain>>
             \/ /\ r.out # trText /\ ~r.hit
                /\ trText' = r.out
                /\ trChain' = NextChain(trChain, r.lastKey)
                /\ UNCHANGED <<trResults, trStatus>>
    /\ UNCHANGED <<trInput, trStore0, notTr>>

\* The same call once more, on the store the first call left.
TrRepeat ==
    /\ trStatus = "done"
    /\ Len(trResults) = 1
    /\ trText' = trInput[1]
    /\ trChain' = <<trInput[2]>>
    /\ trStore0' = store
    /\ trStatus' = "run"
    /\ UNCHANGED <<store, lookedUp, trInput, trResults, notTr>>

TrNext ==
    \/ \E name \in LocateNames : TrLocate(name)
    \/ \E name \in AssignNames, value \in TrValues : TrAssign(name, value)
    \/ \E t \in TrTexts, guard \in TrGuards : TrBegin(t, guard)
    \/ TrPass
    \/ TrRepeat

SpecStore == TrInit /\ [][TrNext]_vars

\* translate runs to completion on the caller's thread: a call in progress
\* takes its next step.
SpecTranslate == TrInit /\ [][TrNext]_vars /\ WF_vars(TrPass)

\* C6: every call of translate returns, whatever the text and the store
\* (cyclic definitions of length one, two and three included), and a second
\* call with the same text returns the same string as the first.
C6_TranslateTerminates ==
    /\ [](trStatus = "run" => <>(trStatus = "done"))
    /\ [](Len(trResults) = 2 => trResults[1] = trResults[2])

\* translate("$a") was called twice on the cycle a -> b -> c -> a and
\* returned both times, after three recursive calls.
C6_Witness ==
    /\ trStatus = "done"
    /\ Len(trResults) = 2
    /\ trInput[1] = <<"$", "a">>
    /\ {<<<<"a">>, <<"$", "b">>>>, <<<<"b">>, <<"$", "c">>>>,
        <<<<"c">>, <<"$", "a">>>>} \subseteq store
    /\ Len(trChain) = 4

\* C7: keys are unique; every key ever looked up is a key of the store;
\* translate("$a") with a absent returns "" and leaves the entry (a, "");
\* a key translate creates has the empty value; no step removes a key.
C7_StoreAutoVivifies ==
    /\ [](/\ \A e1, e2 \in store : e1[1] = e2[1] => e1 = e2
          /\ lookedUp \subseteq Keys(store)
          /\ (/\ trStatus = "done"
              /\ trInput[1] = <<"$", "a">>
              /\ <<"a">> \notin Keys(trStore0))
             => /\ trResults[Len(trResults)] = <<>>
                /\ <<<<"a">>, <<>>>> \in store)
    /\ [][/\ Keys(store) \subseteq Keys(store')
          /\ trStatus = "run"
             => \A k \in Keys(store') \ Keys(store) : ValueOf(store', k) = <<>>]_vars

\* translate("$a") returned "" with a unassigned, and a is now an entry.
C7_Witness ==
    /\ trStatus = "done"
    /\ Len(trResults) = 1
    /\ trInput[1] = <<"$", "a">>
    /\ <<"a">> \notin Keys(trStore0)
    /\ trResults[1] = <<>>
    /\ <<<<"a">>, <<>>>> \in store

(***************************************************************************)
(* as<T>: the conversion of a string to a primitive type                   *)
(***************************************************************************)
AsDigits == {"0", "1", "7"}
AsChars == AsDigits \cup {"-", ".", "x"}
AsWords == {<<"f", "a", "l", "s", "e">>, <<"t", "r", "u", "e">>}
AsStrings == SeqsUpTo(AsChars, MaxAsLen) \cup AsWords
AsTypes == {"int", "double", "bool", "char"}

\* The value of a character as a char.
CharCode(c) ==
    CASE c = "-" -> 45 [] c = "." -> 46 [] c = "0" -> 48 [] c = "1" -> 49
      [] c = "7" -> 55 [] c = "x" -> 120

AsDigitValue(c) == CASE c = "0" -> 0 [] c = "1" -> 1 [] c = "7" -> 7

\* (char)(n) for an int n, char being a signed byte.
NarrowChar(n) == ((n + 128) % 256) - 128

\* The digits read from position pos on: their count and their value,
\* continuing the value acc.
RECURSIVE ReadDigits(_, _, _, _)
ReadDigits(s, pos, acc, count) ==
    IF pos <= Len(s) /\ s[pos] \in AsDigits
    THEN ReadDigits(s, pos + 1, acc * 10 + AsDigitValue(s[pos]), count + 1)
    ELSE [val |-> acc, count |-> count, next |-> pos]

RECURSIVE PowerOfTen(_)
PowerOfTen(n) == IF n = 0 THEN 1 ELSE 10 * PowerOfTen(n - 1)

\* std::istringstream(self) >> t for an integer t: an optional sign and the
\* digits that follow; the extraction fails when there is no digit.
ExtractInt(s) ==
    LET neg == s # <<>> /\ s[1] = "-"
        d == ReadDigits(s, IF neg THEN 2 ELSE 1, 0, 0)
    IN [ok |-> d.count > 0, val |-> IF neg THEN -d.val ELSE d.val]

\* std::istringstream(self) >> t for a floating-point t: an optional sign,
\* digits, an optional point and digits; it fails when there is no digit.
ExtractDouble(s) ==
    LET neg == s # <<>> /\ s[1] = "-"
        whole == ReadDigits(s, IF neg THEN 2 ELSE 1, 0, 0)
        point == whole.next <= Len(s) /\ s[whole.next] = "."
        part == IF point THEN ReadDigits(s, whole.next + 1, whole.val, 0)
                         ELSE [val |-> whole.val, count |-> 0, next |-> whole.next]
        n == IF neg THEN -part.val ELSE part.val
    IN [ok |-> whole.count + part.count > 0,
        val |-> Frac(n, PowerOfTen(part.count))]

\* std::istringstream(self) >> t for a bool t (no boolalpha): an integer is
\* read; 0 and 1 are accepted, every other value fails.
ExtractBool(s) ==
    LET r == ExtractInt(s)
    IN [ok |-> r.ok /\ r.val \in {0, 1}, val |-> r.val = 1]

\* is_true without the comparison with "false".
IsTrueButFalseWord(self) == Len(self) > 0 /\ self # <<"0">>

\* Line 91: is_true.
IsTrue(self) ==
    Len(self) > 0 /\ self # <<"0">> /\ self # <<"f", "a", "l", "s", "e">>

\* (T)(is_true)
CastBool(T, b) ==
    CASE T = "bool" -> b
      [] T = "double" -> IF b THEN Num(1, 1) ELSE Num(0, 1)
      [] OTHER -> IF b THEN 1 ELSE 0

\* The primary template as<T>, lines 86-93.
AsGeneric(T, self) ==
    LET r == CASE T = "bool" -> ExtractBool(self)
               [] T = "double" -> ExtractDouble(self)
               [] OTHER -> ExtractInt(self)
    IN IF r.ok THEN r.val ELSE CastBool(T, IsTrue(self))

\* as<T>: the specialisation for char (lines 95-98), else the primary
\* template.
As(T, self) ==
    IF T = "char"
    THEN IF Len(self) = 1 THEN CharCode(self[1])
                          ELSE NarrowChar(AsGeneric("int", self))
    ELSE AsGeneric(T, self)

AsInit ==
    /\ RmIdle
    /\ MaIdle
    /\ EvIdle
    /\ TrIdle
    /\ AtIdle
    /\ GoIdle
    /\ IniIdle
    /\ StIdle
    /\ RpIdle
    /\ SpIdle
    /\ asSelf \in AsStrings
    /\ asType \in AsTypes
    /\ asResult = 0
    /\ asStatus = "ready"

\* string::as<T>(), lines 285-288.
AsCall ==
    /\ asStatus = "ready"
    /\ asResult' = As(asType, asSelf)
    /\ asStatus' = "done"
    /\ UNCHANGED <<asSelf, asType, notAs>>

AsNext == AsCall

SpecAs == AsInit /\ [][AsNext]_vars

(***************************************************************************)
(* Properties of as<T>                                                     *)
(***************************************************************************)

\* The lengths k for which the first k characters of s are an integer
\* numeral: an optional sign, then digits only, at least one.
IntNumerals(s) ==
    {k \in 1..Len(s) :
        LET from == IF s[1] = "-" THEN 2 ELSE 1
        IN from <= k /\ \A n \in from..k : s[n] \in AsDigits}

\* The lengths k for which the first k characters of s are a decimal
\* numeral: an optional sign, then digits with at most one point among them,
\* at least one digit.
RealNumerals(s) ==
    {k \in 1..Len(s) :
        LET from == IF s[1] = "-" THEN 2 ELSE 1
        IN /\ \A n \in from..k : s[n] \in AsDigits \cup {"."}
           /\ Cardinality({n \in from..k : s[n] = "."}) <= 1
           /\ \E n \in from..k : s[n] \in AsDigits}

Longest(S) == CHOOSE k \in S : \A j \in S : j <= k

\* The number a numeral of s (its first k characters) denotes, as a sum of
\* digit * weight, scaled by 10^scale.
RECURSIVE PlaceValue(_, _, _)
PlaceValue(s, k, weight) ==
    IF k = 0 \/ s[k] = "-" THEN 0
    ELSE IF s[k] = "." THEN PlaceValue(s, k - 1, weight)
    ELSE AsDigitValue(s[k]) * weight + PlaceValue(s, k - 1, weight * 10)

Decimals(s, k) ==
    IF \E n \in 1..k : s[n] = "."
    THEN k - (CHOOSE n \in 1..k : s[n] = ".")
    ELSE 0

Signed(s, v) == IF s[1] = "-" THEN -v ELSE v

Truthy(s) == s \notin {<<>>, <<"0">>, <<"f", "a", "l", "s", "e">>}

\* The rule of the specification for a type T: the parsed number when the
\* string parses as a number, else the truth value of the string.
Rule(T, s) ==
    IF T = "double"
    THEN IF RealNumerals(s) # {}
         THEN LET k == Longest(RealNumerals(s))
              IN Frac(Signed(s, PlaceValue(s, k, 1)), PowerOfTen(Decimals(s, k)))
         ELSE IF Truthy(s) THEN Num(1, 1) ELSE Num(0, 1)
    ELSE IF IntNumerals(s) # {}
         THEN LET v == Signed(s, PlaceValue(s, Longest(IntNumerals(s)), 1))
              IN CASE T = "bool" -> v # 0
                   [] T = "char" -> NarrowChar(v)
                   [] OTHER -> v
         ELSE IF T = "bool" THEN Truthy(s)
         ELSE IF Truthy(s) THEN 1 ELSE 0

\* C12 as stated: every type, the character type included, is converted by
\* the one rule.
C12_SameRuleForEveryType ==
    asStatus = "done" => asResult = Rule(asType, asSelf)

\* C12 amended: integer, floating point and boolean follow the rule; for the
\* character type a string of exactly one character converts to that
\* character itself, and every other string follows the rule.
C12_RuleExceptSingleCharacter ==
    asStatus = "done" =>
        asResult = IF asType = "char" /\ Len(asSelf) = 1
                   THEN CharCode(asSelf[1])
                   ELSE Rule(asType, asSelf)

\* as<char>() of "7" returned the character '7', not the number 7.
C12_Witness ==
    /\ asStatus = "done"
    /\ asType = "char"
    /\ asSelf = <<"7">>
    /\ asResult = 55

(***************************************************************************)
(* string::at( pos ) and operator[]: circular indexing                     *)
(***************************************************************************)
Hello == <<"h", "e", "l", "l", "o">>
AtStrings == SeqsUpTo({"a", "b"}, MaxAtLen) \cup {Hello}
AtPositions == (-MaxAtPos)..MaxAtPos

\* The character '\0'.
Nul == "nul"

\* a % b of C++ for int operands, b > 0: the remainder has the sign of a.
CRem(a, b) == IF a >= 0 THEN a % b ELSE -((-a) % b)

\* The index computed with the plain remainder for every pos.
PlainRemainderIndex(pos, size) == CRem(pos, size)

\* The index expression of lines 359 and 368.
AtIndex(pos, size) ==
    IF pos >= 0 THEN CRem(pos, size) ELSE size - 1 + CRem(pos + 1, size)

\* std::string::at( n ): the character at the 0-based index n, or the
\* exception std::out_of_range.
StdAt(self, n) ==
    IF n >= 0 /\ n < Len(self) THEN self[n + 1] ELSE "out_of_range"

\* string::at( pos ), lines 355-371.
At(self, pos) ==
    IF Len(self) # 0 THEN StdAt(self, AtIndex(pos, Len(self))) ELSE Nul

AtInit ==
    /\ RmIdle
    /\ MaIdle
    /\ EvIdle
    /\ TrIdle
    /\ AsIdle
    /\ GoIdle
    /\ IniIdle
    /\ StIdle
    /\ RpIdle
    /\ SpIdle
    /\ atSelf \in AtStrings
    /\ atPos \in AtPositions
    /\ atResult = ""
    /\ atStatus = "ready"

\* self[ pos ], lines 373-378.
AtCall ==
    /\ atStatus = "ready"
    /\ atResult' = At(atSelf, atPos)
    /\ atStatus' = "done"
    /\ UNCHANGED <<atSelf, atPos, notAt>>

AtNext == AtCall

SpecAt == AtInit /\ [][AtNext]_vars

\* C13: for a non-empty string of length n the character returned is the
\* one at index pos mod n (the non-negative modulus), the index is within
\* 0..n-1 so no exception is raised; "hello"[5] is 'h' and "hello"[-1] is
\* 'o'; for the empty string the result is '\0'.
C13_CircularIndex ==
    atStatus = "done" =>
        /\ atSelf # <<>> =>
              /\ AtIndex(atPos, Len(atSelf)) \in 0..(Len(atSelf) - 1)
              /\ atResult = atSelf[(atPos % Len(atSelf)) + 1]
        /\ atSelf = <<>> => atResult = Nul
        /\ (atSelf = Hello /\ atPos = 5) => atResult = "h"
        /\ (atSelf = Hello /\ atPos = -1) => atResult = "o"

\* A position below -n that is not a multiple of n was indexed: "ab"[-5]
\* is 'b'.
C13_Witness ==
    /\ atStatus = "done"
    /\ atSelf = <<"a", "b">>
    /\ atPos = -5
    /\ atResult = "b"

(***************************************************************************)
(* string::split( delimiters ): tokens, the separators included            *)
(***************************************************************************)

\* The loop with the separators dropped instead of kept as tokens.
RECURSIVE SplitLoopDropping(_, _, _, _, _)
SplitLoopDropping(self, delimiters, pos, str, tokens) ==
    IF pos > Len(self)
    THEN IF str = <<>> THEN tokens ELSE Append(tokens, str)
    ELSE IF self[pos] \in delimiters
         THEN SplitLoopDropping(self, delimiters, pos + 1, <<>>,
                                IF str # <<>> THEN Append(tokens, str) ELSE tokens)
    ELSE SplitLoopDropping(self, delimiters, pos + 1, Append(str, self[pos]), tokens)

\* The loop of lines 651-656 from position pos on: str is the token being
\* collected, tokens the deque.
RECURSIVE SplitLoop(_, _, _, _, _)
SplitLoop(self, delimiters, pos, str, tokens) ==
    IF pos > Len(self)
    THEN IF str = <<>> THEN tokens ELSE Append(tokens, str)
    ELSE IF self[pos] \in delimiters
         THEN SplitLoop(self, delimiters, pos + 1, <<>>,
                        Append(IF str # <<>> THEN Append(tokens, str) ELSE tokens,
                               <<self[pos]>>))
    ELSE SplitLoop(self, delimiters, pos + 1, Append(str, self[pos]), tokens)

\* string::split, lines 649-659; delimiters is the set of the characters of
\* the delimiter string.
SplitTokens(self, delimiters) == SplitLoop(self, delimiters, 1, <<>>, <<>>)

(***************************************************************************)
(* getopt                                                                  *)
(***************************************************************************)
ArgTexts == SeqsUpTo({"a", "=", "2"}, MaxArgLen)
Argvs == SeqsUpTo(ArgTexts, MaxArgc)

DecimalDigits == <<"0", "1", "2", "3", "4", "5", "6", "7", "8", "9">>

\* wire::string( n ) for a non-negative integer n: its decimal numeral.
RECURSIVE ToDecimal(_)
ToDecimal(n) ==
    IF n < 10 THEN <<DecimalDigits[n + 1]>>
    ELSE Append(ToDecimal(n \div 10), DecimalDigits[(n % 10) + 1])

\* wire::string( true )
TrueText == <<"t", "r", "u", "e">>

\* map[ key ] = value
Put(map, key, value) ==
    [k \in DOMAIN map \cup {key} |-> IF k = key THEN value ELSE map[k]]

\* The body of the first loop for one argument, lines 888-898.
KeyValue(map, arg, argv0) ==
    LET tokens == SplitTokens(arg, {"="})
    IN IF Len(tokens) = 3 /\ tokens[2] = <<"=">>
       THEN Put(map, tokens[1], tokens[3])
       ELSE IF Len(tokens) = 2 /\ tokens[2] = <<"=">>
       THEN Put(map, tokens[1], TrueText)
       ELSE IF Len(tokens) = 1 /\ tokens[1] # argv0
       THEN Put(map, tokens[1], TrueText)
       ELSE map

\* The first loop, lines 887-898, over args[n..].
RECURSIVE KeyValues(_, _, _)
KeyValues(map, argv, n) ==
    IF n > Len(argv) THEN map
    ELSE KeyValues(KeyValue(map, argv[n], argv[1]), argv, n + 1)

\* The second loop, lines 901-903: while( argc-- ) map[ argc ] = argv[argc].
RECURSIVE Positional(_, _, _)
Positional(map, argv, argc) ==
    IF argc = 0 THEN map
    ELSE Positional(Put(map, ToDecimal(argc - 1), argv[argc]), argv, argc - 1)

\* has( op ), lines 912-914.
Has(map, op) == op \in DOMAIN map

\* size(), lines 906-910: the first i for which has( i ) is false.
RECURSIVE SizeFrom(_, _)
SizeFrom(map, n) == IF Has(map, ToDecimal(n)) THEN SizeFrom(map, n + 1) ELSE n

GoInit ==
    /\ RmIdle
    /\ MaIdle
    /\ EvIdle
    /\ TrIdle
    /\ AsIdle
    /\ AtIdle
    /\ IniIdle
    /\ StIdle
    /\ RpIdle
    /\ SpIdle
    /\ goArgv = <<>>
    /\ goMap = <<>>
    /\ goSize = 0
    /\ goStatus = "ready"

\* getopt( argc, argv ), lines 883-904.
GoConstruct(argv) ==
    /\ goStatus = "ready"
    /\ goArgv' = argv
    /\ goMap' = Positional(KeyValues(<<>>, argv, 1), argv, Len(argv))
    /\ goStatus' = "built"
    /\ UNCHANGED <<goSize, notGo>>

\* size(), lines 906-910.
GoSize ==
    /\ goStatus = "built"
    /\ goSize' = SizeFrom(goMap, 0)
    /\ goStatus' = "done"
    /\ UNCHANGED <<goArgv, goMap, notGo>>

GoNext ==
    \/ \E argv \in Argvs : GoConstruct(argv)
    \/ GoSize

SpecGetopt == GoInit /\ [][GoNext]_vars

\* C14: size() equals argc and map[i] equals argv[i] for every i below
\* argc, whatever the arguments are.
C14_SizeIsArgc ==
    goStatus = "done" =>
        /\ goSize = Len(goArgv)
        /\ \A n \in 1..Len(goArgv) :
              /\ Has(goMap, ToDecimal(n - 1))
              /\ goMap[ToDecimal(n - 1)] = goArgv[n]

\* The positional half of C14 alone: map[i] equals argv[i] for every i
\* below argc, and size() is at least argc.
C14_PositionalEntries ==
    goStatus = "done" =>
        /\ goSize >= Len(goArgv)
        /\ \A n \in 1..Len(goArgv) :
              /\ Has(goMap, ToDecimal(n - 1))
              /\ goMap[ToDecimal(n - 1)] = goArgv[n]

\* getopt( 2, { "a", "2" } ): size() returned 3.
C14_Witness ==
    /\ goStatus = "done"
    /\ goArgv = <<<<"a">>, <<"2">>>>
    /\ goSize = 3

(***************************************************************************)
(* ini: load and save.  Strings are sequences of byte values here, since   *)
(* the map is iterated in the byte-wise order of its keys.                 *)
(***************************************************************************)

\* The byte value of a character.
Byte(c) ==
    CASE c = "\n" -> 10 [] c = "\r" -> 13 [] c = " " -> 32 [] c = "-" -> 45
      [] c = "." -> 46 [] c = ";" -> 59 [] c = "=" -> 61 [] c = "[" -> 91
      [] c = "]" -> 93 [] c = "a" -> 97 [] c = "b" -> 98 [] c = "c" -> 99
      [] c = "d" -> 100 [] c = "e" -> 101 [] c = "g" -> 103 [] c = "i" -> 105
      [] c = "j" -> 106 [] c = "k" -> 107 [] c = "l" -> 108 [] c = "n" -> 110
      [] c = "o" -> 111 [] c = "r" -> 114 [] c = "s" -> 115 [] c = "t" -> 116
      [] c = "u" -> 117 [] c = "v" -> 118 [] c = "w" -> 119 [] c = "y" -> 121

Bytes8(chars) == [n \in 1..Len(chars) |-> Byte(chars[n])]

IniSections == {Bytes8(<<"s">>), Bytes8(<<"t">>)}
IniNames == {Bytes8(<<"j">>), Bytes8(<<"k">>)}
IniValues == {Bytes8(<<"v">>), Bytes8(<<"w">>)}

CrLf == Bytes8(<<"\r", "\n">>)

\* "; auto-generated by ini class\r\n", line 966.
IniHeader ==
    Bytes8(<<";", " ", "a", "u", "t", "o", "-", "g", "e", "n", "e", "r", "a",
             "t", "e", "d", " ", "b", "y", " ", "i", "n", "i", " ", "c", "l",
             "a", "s", "s">>) \o CrLf

\* The iteration of a std::map: its keys in ascending order.
RECURSIVE AscendingKeys(_)
AscendingKeys(S) ==
    IF S = {} THEN <<>> ELSE <<MinKey(S)>> \o AscendingKeys(S \ {MinKey(S)})

\* string::tokenize, lines 637-647, from position pos on; tokens is the
\* deque, which starts with one empty token.
RECURSIVE TokenizeLoop(_, _, _, _)
TokenizeLoop(self, delimiters, pos, tokens) ==
    IF pos > Len(self) THEN tokens
    ELSE LET back == tokens[Len(tokens)] IN
         IF self[pos] \notin delimiters
         THEN TokenizeLoop(self, delimiters, pos + 1,
                           [tokens EXCEPT ![Len(tokens)] = Append(back, self[pos])])
         ELSE IF back # <<>>
         THEN TokenizeLoop(self, delimiters, pos + 1, Append(tokens, <<>>))
         ELSE TokenizeLoop(self, delimiters, pos + 1, tokens)

\* Line 645: the empty tokens at the back are removed.
RECURSIVE PopEmpty(_)
PopEmpty(tokens) ==
    IF tokens # <<>> /\ tokens[Len(tokens)] = <<>>
    THEN PopEmpty(SubSeq(tokens, 1, Len(tokens) - 1))
    ELSE tokens

Tokenize(self, delimiters) == PopEmpty(TokenizeLoop(self, delimiters, 1, <<<<>>>>))

\* line.substr( 0, line.find_first_of(';') ), line 956.
BeforeComment(line) ==
    IF \E n \in 1..Len(line) : line[n] = Byte(";")
    THEN SubSeq(line, 1, (CHOOSE n \in 1..Len(line) :
                             /\ line[n] = Byte(";")
                             /\ \A j \in 1..(n - 1) : line[j] # Byte(";")) - 1)
    ELSE line

\* The loop of load over lines[n..], lines 955-961: the map read so far
\* and whether the loop ran to its end.
RECURSIVE LoadLines(_, _, _, _)
LoadLines(lines, n, section, map) ==
    IF n > Len(lines) THEN [ok |-> TRUE, map |-> map]
    ELSE LET t == SplitTokens(BeforeComment(lines[n]),
                              {Byte("["), Byte("]"), Byte("=")})
         IN IF Len(t) = 3 /\ t[1] = <<Byte("[")>> /\ t[3] = <<Byte("]")>>
            THEN LoadLines(lines, n + 1, t[2], map)
            ELSE IF Len(t) = 3 /\ t[2] = <<Byte("=")>>
            THEN LoadLines(lines, n + 1, section,
                           Put(map, section \o <<Byte(".")>> \o t[1], t[3]))
            ELSE [ok |-> FALSE, map |-> map]

\* ini::load, lines 951-963.
Load(txt) ==
    LoadLines(Tokenize(txt, {Byte("\r"), Byte("\n")}), 1, <<>>, <<>>)

\* The loop of save over keys[n..], lines 967-973.
RECURSIVE SaveEntries(_, _, _, _)
SaveEntries(map, keys, n, section) ==
    IF n > Len(keys) THEN <<>>
    ELSE LET kv == Tokenize(keys[n], {Byte(".")})
             head == IF section # kv[1]
                     THEN CrLf \o <<Byte("[")>> \o kv[1] \o <<Byte("]")>> \o CrLf
                     ELSE <<>>
         IN head \o kv[2] \o <<Byte("=")>> \o map[keys[n]] \o CrLf
                 \o SaveEntries(map, keys, n + 1, kv[1])

\* ini::save, lines 965-975.
Save(map) == IniHeader \o SaveEntries(map, AscendingKeys(DOMAIN map), 1, <<>>)

IniInit ==
    /\ RmIdle
    /\ MaIdle
    /\ EvIdle
    /\ TrIdle
    /\ AsIdle
    /\ AtIdle
    /\ GoIdle
    /\ StIdle
    /\ RpIdle
    /\ SpIdle
    /\ ini = <<>>
    /\ iniOriginal = <<>>
    /\ iniText = <<>>
    /\ iniLoaded = FALSE
    /\ iniStatus = "build"

\* ini[ section.key ] = value
IniSet(section, name, value) ==
    /\ iniStatus = "build"
    /\ LET key == section \o <<Byte(".")>> \o name IN
          /\ key \notin DOMAIN ini => Cardinality(DOMAIN ini) < MaxIniEntries
          /\ ini' = Put(ini, key, value)
    /\ UNCHANGED <<iniOriginal, iniText, iniLoaded, iniStatus, notIni>>

\* text = ini.save()
IniSave ==
    /\ iniStatus = "build"
    /\ iniText' = Save(ini)
    /\ iniStatus' = "saved"
    /\ UNCHANGED <<ini, iniOriginal, iniLoaded, notIni>>

\* ini.load( text )
IniLoad ==
    /\ iniStatus = "saved"
    /\ \E r \in {Load(iniText)} :
          /\ ini' = r.map
          /\ iniLoaded' = r.ok
    /\ iniOriginal' = ini
    /\ iniStatus' = "loaded"
    /\ UNCHANGED <<iniText, notIni>>

IniNext ==
    \/ \E section \in IniSections, name \in IniNames, value \in IniValues :
          IniSet(section, name, value)
    \/ IniSave
    \/ IniLoad

SpecIni == IniInit /\ [][IniNext]_vars

\* C15: load( save() ) returns true and leaves a map equal to the original.
C15_RoundTrip ==
    iniStatus = "loaded" => iniLoaded /\ ini = iniOriginal

\* A map of two sections was saved and loaded back: load returned false and
\* the map is empty.
C15_Witness ==
    /\ iniStatus = "loaded"
    /\ Cardinality(DOMAIN iniOriginal) = 3
    /\ ~iniLoaded
    /\ ini = <<>>

(***************************************************************************)
(* string::strip( chars, strip_left, strip_right ) and lstrip, rstrip,     *)
(* strip.  size_type and int are SizeBits wide: size_type holds            *)
(* 0 .. 2^SizeBits - 1 and wraps, int holds -2^(SizeBits-1) ..             *)
(* 2^(SizeBits-1) - 1.                                                     *)
(***************************************************************************)
StripTexts == SeqsUpTo({" ", "x"}, MaxStripLen)
StripSets == {<<>>, <<"x">>}

RECURSIVE TwoTo(_)
TwoTo(n) == IF n = 0 THEN 1 ELSE 2 * TwoTo(n - 1)

SizeModulus == TwoTo(SizeBits)

\* Arithmetic of size_type.
SizeDec(n) == (n - 1) % SizeModulus
SizeInc(n) == (n + 1) % SizeModulus
SizeSub(a, b) == (a - b) % SizeModulus

\* The conversion of a size_type to the int parameter of operator[].
ToInt(n) == IF n >= SizeModulus \div 2 THEN n - SizeModulus ELSE n

\* std::isspace( (*this)[ n ] ) when chars is empty, else
\* std::memchr( sep, (*this)[ n ], charslen ); operator[] is the circular
\* one of wire::string and takes an int.
Strippable(self, chars, n) ==
    LET c == At(self, ToInt(n))
    IN IF Len(chars) = 0 THEN c = " " ELSE \E k \in 1..Len(chars) : chars[k] = c

\* this->substr( pos, count )
Substr(self, pos, count) ==
    IF pos > Len(self) THEN "out_of_range"
    ELSE SubSeq(self, pos + 1, IF pos + count > Len(self) THEN Len(self)
                                                         ELSE pos + count)

StInit ==
    /\ RmIdle
    /\ MaIdle
    /\ EvIdle
    /\ TrIdle
    /\ AsIdle
    /\ AtIdle
    /\ GoIdle
    /\ IniIdle
    /\ RpIdle
    /\ SpIdle
    /\ stSelf \in StripTexts
    /\ stChars \in StripSets
    /\ stLeft = FALSE
    /\ stRight = FALSE
    /\ stI = 0
    /\ stJ = 0
    /\ stResult = <<>>
    /\ stWrapped = FALSE
    /\ stPc = "ready"

\* lstrip / rstrip / strip( chars ): the call of the private strip and its
\* line 553.
StCall(left, right) ==
    /\ stPc = "ready"
    /\ stLeft' = left
    /\ stRight' = right
    /\ stI' = 0
    /\ stJ' = Len(stSelf)
    /\ stPc' = IF left THEN "left"
               ELSE IF right /\ Len(stSelf) # 0 THEN "right" ELSE "return"
    /\ UNCHANGED <<stSelf, stChars, stResult, stWrapped, notSt>>

\* One evaluation of the condition of the left loop, lines 558-559 and
\* 570-571, with the i++ it guards.
StLeftStep ==
    /\ stPc = "left"
    /\ IF stI < Len(stSelf) /\ Strippable(stSelf, stChars, stI)
       THEN /\ stI' = SizeInc(stI)
            /\ UNCHANGED <<stJ, stPc>>
       ELSE /\ stPc' = IF stRight /\ stJ # 0 THEN "right" ELSE "return"
            /\ UNCHANGED <<stI, stJ>>
    /\ UNCHANGED <<stSelf, stChars, stLeft, stRight, stResult, stWrapped, notSt>>

\* One iteration of the right loop, lines 561-564 and 573-576: j--, the
\* condition, and the j++ that follows the loop when the condition fails.
StRightStep ==
    /\ stPc = "right"
    /\ stWrapped' = (stWrapped \/ stJ = 0)
    /\ IF SizeDec(stJ) >= stI /\ Strippable(stSelf, stChars, SizeDec(stJ))
       THEN /\ stJ' = SizeDec(stJ)
            /\ UNCHANGED stPc
       ELSE /\ stJ' = SizeInc(SizeDec(stJ))
            /\ stPc' = "return"
    /\ UNCHANGED <<stSelf, stChars, stLeft, stRight, stI, stResult, notSt>>

\* Lines 579-580.
StReturn ==
    /\ stPc = "return"
    /\ stResult' = IF SizeSub(stJ, stI) = Len(stSelf) THEN stSelf
                   ELSE Substr(stSelf, stI, SizeSub(stJ, stI))
    /\ stPc' = "done"
    /\ UNCHANGED <<stSelf, stChars, stLeft, stRight, stI, stJ, stWrapped, notSt>>

StStep == StLeftStep \/ StRightStep \/ StReturn

StNext ==
    \/ \E left, right \in BOOLEAN : (left \/ right) /\ StCall(left, right)
    \/ StLeftStep
    \/ StRightStep
    \/ StReturn

\* The call runs on the caller's thread: a call in progress takes its next
\* step.
SpecStrip == StInit /\ [][StNext]_vars /\ WF_vars(StStep)

AllStrippable(self, chars) ==
    \A n \in 1..Len(self) :
        IF Len(chars) = 0 THEN self[n] = " " ELSE \E k \in 1..Len(chars) : chars[k] = self[n]

\* C16: every call returns, j is never decremented below zero, and rstrip
\* of a non-empty string of strippable characters returns "".
C16_StripTerminates ==
    /\ [](stPc \in {"left", "right", "return"} => <>(stPc = "done"))
    /\ [](~stWrapped)
    /\ []((/\ stPc = "done"
           /\ ~stLeft
           /\ stSelf # <<>>
           /\ AllStrippable(stSelf, stChars)) => stResult = <<>>)

\* What does hold: a call that strips on the left, or whose string has a
\* character that is not strippable, or is empty, returns without j
\* wrapping.
C16_TerminatesUnlessRightOnlyAllStrippable ==
    /\ []((/\ stPc \in {"left", "right", "return"}
           /\ (stLeft \/ stSelf = <<>> \/ ~AllStrippable(stSelf, stChars)))
          => <>(stPc = "done"))
    /\ [](stWrapped => (/\ ~stLeft
                        /\ stSelf # <<>>
                        /\ AllStrippable(stSelf, stChars)))

\* rstrip of "  ": j was decremented at zero and the loop goes on, reading
\* the characters circularly.
C16_Witness ==
    /\ stPc = "right"
    /\ stSelf = <<" ", " ">>
    /\ stChars = <<>>
    /\ ~stLeft
    /\ stWrapped
    /\ stJ = SizeModulus - 3

(***************************************************************************)
(* string::replace( target, replacement )                                  *)
(***************************************************************************)
ReplaceTexts == SeqsUpTo({"a", "b"}, MaxReplaceLen)

\* std::string::max_size(): no string is longer.  It is larger than every
\* result a text, a non-empty target and a replacement of the bounded
\* lengths can give.
StringMaxSize == MaxReplaceLen * MaxReplaceLen + 1

\* std::string::npos
Npos == -1

\* s.find( target, from ): the first position >= from where target occurs
\* in s, or npos; the empty target occurs at every position up to size().
Find(s, target, from) ==
    LET hits == {p \in from..(Len(s) - Len(target)) :
                    SubSeq(s, p + 1, p + Len(target)) = target}
    IN IF hits = {} THEN Npos ELSE CHOOSE p \in hits : \A q \in hits : p <= q

\* Line 507: found += replacement.length().
ResumeAfter(found, replacement) == found + Len(replacement)

\* s.replace( found, n, replacement ), line 506.
StdReplace(s, found, n, replacement) ==
    SubSeq(s, 1, found) \o replacement \o SubSeq(s, found + n + 1, Len(s))

RpInit ==
    /\ RmIdle
    /\ MaIdle
    /\ EvIdle
    /\ TrIdle
    /\ AsIdle
    /\ AtIdle
    /\ GoIdle
    /\ IniIdle
    /\ StIdle
    /\ SpIdle
    /\ rpSelf \in ReplaceTexts
    /\ rpTarget \in ReplaceTexts
    /\ rpRepl \in ReplaceTexts
    /\ rpS = <<>>
    /\ rpFound = 0
    /\ rpPc = "ready"

\* Lines 501-502.
RpCall ==
    /\ rpPc = "ready"
    /\ rpFound' = 0
    /\ rpS' = rpSelf
    /\ rpPc' = "loop"
    /\ UNCHANGED <<rpSelf, rpTarget, rpRepl, notRp>>

\* One evaluation of the loop condition, line 504, and the loop body, lines
\* 506-507, or the return of line 510; s.replace throws when the result
\* would be longer than max_size().
RpIterate ==
    /\ rpPc = "loop"
    /\ \E at \in {Find(rpS, rpTarget, rpFound)} :
          IF at = Npos
          THEN /\ rpPc' = "done"
               /\ rpFound' = at
               /\ UNCHANGED rpS
          ELSE IF Len(rpS) - Len(rpTarget) + Len(rpRepl) > StringMaxSize
          THEN /\ rpPc' = "threw"
               /\ rpFound' = at
               /\ UNCHANGED rpS
          ELSE /\ rpS' = StdReplace(rpS, at, Len(rpTarget), rpRepl)
               /\ rpFound' = ResumeAfter(at, rpRepl)
               /\ UNCHANGED rpPc
    /\ UNCHANGED <<rpSelf, rpTarget, rpRepl, notRp>>

RpNext == RpCall \/ RpIterate

\* The call runs on the caller's thread: a call in progress takes its next
\* step.
SpecReplace == RpInit /\ [][RpNext]_vars /\ WF_vars(RpIterate)

\* The distance of the search position from the end of the string.
Remaining == Len(rpS) - rpFound

\* C17: every call returns, whatever the target and the replacement are,
\* and every iteration of the loop brings the search position nearer to the
\* end of the string.
C17_ReplaceTerminates ==
    /\ [](rpPc = "loop" => <>(rpPc = "done"))
    /\ [][(rpPc = "loop" /\ rpPc' = "loop") => Remaining' < Remaining]_vars

\* What does hold: with a non-empty target every call returns, the search
\* position nears the end on every iteration, and the text a replacement
\* put in is not searched again.
C17_TerminatesForNonEmptyTarget ==
    /\ []((rpPc = "loop" /\ rpTarget # <<>>) => <>(rpPc = "done"))
    /\ [][(rpPc = "loop" /\ rpPc' = "loop" /\ rpTarget # <<>>)
             => /\ Remaining' < Remaining
                /\ SubSeq(rpS', 1, rpFound') = SubSeq(rpS, 1, rpFound' - Len(rpRepl)) \o rpRepl]_vars

\* replace( "", "" ) on "a": the loop has found the empty target at 0,
\* replaced nothing and is where it was.
C17_Witness ==
    /\ rpPc = "loop"
    /\ rpSelf = <<"a">>
    /\ rpTarget = <<>>
    /\ rpRepl = <<>>
    /\ Find(rpS, rpTarget, rpFound) = rpFound
    /\ StdReplace(rpS, rpFound, 0, rpRepl) = rpS

(***************************************************************************)
(* string::split( delimiters ) as a call                                   *)
(***************************************************************************)
SplitChars == {"a", ",", ";"}
SplitTexts == SeqsUpTo(SplitChars, MaxSplitLen)
DelimiterTexts == SeqsUpTo({",", ";"}, MaxDelimiters)

\* The characters of a string.
CharsOf(str) == {str[n] : n \in 1..Len(str)}

SpInit ==
    /\ RmIdle
    /\ MaIdle
    /\ EvIdle
    /\ TrIdle
    /\ AsIdle
    /\ AtIdle
    /\ GoIdle
    /\ IniIdle
    /\ StIdle
    /\ RpIdle
    /\ spSelf \in SplitTexts
    /\ spDelimiters \in DelimiterTexts
    /\ spTokens = <<>>
    /\ spStatus = "ready"

\* tokens = self.split( delimiters ), lines 649-659.
SpCall ==
    /\ spStatus = "ready"
    /\ spTokens' = SplitTokens(spSelf, CharsOf(spDelimiters))
    /\ spStatus' = "done"
    /\ UNCHANGED <<spSelf, spDelimiters, notSp>>

SpNext == SpCall

SpecSplit == SpInit /\ [][SpNext]_vars

RECURSIVE Concat(_)
Concat(tokens) ==
    IF tokens = <<>> THEN <<>> ELSE Head(tokens) \o Concat(Tail(tokens))

\* C18: the tokens concatenated give the string back; no token is empty;
\* the tokens that contain a delimiter are exactly one character long, and
\* there is one of them for each delimiter character of the string.
C18_SplitLossless ==
    spStatus = "done" =>
        /\ Concat(spTokens) = spSelf
        /\ \A n \in 1..Len(spTokens) :
              /\ spTokens[n] # <<>>
              /\ (CharsOf(spTokens[n]) \cap CharsOf(spDelimiters) # {})
                    => Len(spTokens[n]) = 1
        /\ Cardinality({n \in 1..Len(spTokens) :
                           CharsOf(spTokens[n]) \cap CharsOf(spDelimiters) # {}})
              = Cardinality({n \in 1..Len(spSelf) : spSelf[n] \in CharsOf(spDelimiters)})

\* "a,;" was split on ",;": a word and two adjacent separators gave three
\* tokens.
C18_Witness ==
    /\ spStatus = "done"
    /\ spSelf = <<"a", ",", ";">>
    /\ spDelimiters = <<",", ";">>
    /\ spTokens = <<<<"a">>, <<",">>, <<";">>>>

====
